---- MODULE Spec2Model ----
(***************************************************************************)
(* A model of the siliconcrowds package:                                   *)
(*   - Model.invoke (model.py): the bounded retry / self-correction loop   *)
(*     around the remote chat-completion call;                             *)
(*   - Instruction.build_message (prompt.py): template rendering;          *)
(*   - Bucket.list_files / list_public_urls (bucket.py) and                *)
(*     Contextual.__init__ (context.py): context assembly.                 *)
(* Texts are sequences of string fragments, so that an f-string is a       *)
(* concatenation.  The remote services are the environment: their replies  *)
(* are chosen nondeterministically from small sets.                        *)
(***************************************************************************)
EXTENDS Integers, Sequences, FiniteSets, TLC

\* ------------------------------------------------------------------ bounds

\* largest retry limit tried (client default and per-call override)
MaxRetries == 3
\* number of invoke calls made one after the other on the same client
MaxInvokes == 2

\* ---------------------------------------------------------- invoke: state

VARIABLES
    selfRetries,   \* Model.retries, set at construction
    orig,          \* the caller's conversation as it was before the first call
    heap,          \* list objects: "caller" is the list passed in, "local" is invoke's own
    pc,            \* "idle" | "loop" | "returned" | "raised"
    schema,        \* structured_output of the running call: "None" or a schema name
    retries,       \* the effective retry limit of the running call
    attempt,       \* the loop variable: index of the next attempt
    cur,           \* the list object current_messages refers to
    sent,          \* the requests handed to the remote in this call, in order
    responses,     \* the remote responses received in this call, in order
    result,        \* <<the Response returned>>, or <<>> while there is none
    error,         \* the exception raised: [kind, detail], kind "none" while there is none
    retriesArg,    \* the retries argument of the running call: <<>> for None, else <<n>>
    invocations,   \* invoke calls started on this client
    everCorrected  \* an earlier call on this client appended corrective messages

invokeVars == <<selfRetries, orig, heap, pc, schema, retries, attempt, cur, sent,
                responses, result, error, retriesArg, invocations, everCorrected>>

\* --------------------------------------------------------- rendering: state

VARIABLES
    userPrompt,    \* prompt.user_prompt
    transcript,    \* the transcript argument
    imageUrl,      \* the image_url argument: <<>> for None, else <<url>>
    rpc,           \* "ready" | "built"
    messages       \* the list build_message returns

renderVars == <<userPrompt, transcript, imageUrl, rpc, messages>>

\* -------------------------------------------------- context assembly: state

VARIABLES
    listing,         \* what storage.list(path) answers: [isList, items]
    questions,       \* the rows of the questions table, as database.get_questions returns them
    cpc,             \* "ready" | "listed" | "assembled"
    urls,            \* <<the mapping list_public_urls returned>>, or <<>>
    signedRequests,  \* the create_signed_urls requests made
    contexts,        \* <<Contextual.contexts>>, or <<>>
    cerror           \* the exception raised ("none" while there is none)

contextVars == <<listing, questions, cpc, urls, signedRequests, contexts, cerror>>

vars == <<invokeVars, renderVars, contextVars>>

\* ------------------------------------------------------- invoke: the data

MessageRoles == {"user", "system", "assistant"}

\* MessageRole(value): the enum member with that value
MessageRole(r) == CHOOSE m \in MessageRoles : m = r

TextPart(t) == [type |-> "text", text |-> t]

Message(role, content) == [role |-> role, content |-> content]

Schemas == {"NumericSchema", "TimeSchema"}

\* the default of Model.__init__'s retries parameter
DefaultRetries == 2

\* the texts a reply can carry
TxtNum == <<"{\"answer\": 13}">>
TxtTime == <<"{\"answer\": \"00:48\"}">>
TxtBadTime == <<"{\"answer\": \"0:75\"}">>
TxtParis == <<"Paris">>

\* schema.model_validate_json(text): <<the parsed payload>>, or <<>> for a
\* ValidationError.  NumericSchema wants an integer answer, TimeSchema a
\* string answer matching ^\d{1,2}:[0-5]\d$.
ModelValidateJson(s, t) ==
    IF s = "NumericSchema" /\ t = TxtNum THEN <<[schema |-> s, answer |-> "13"]>>
    ELSE IF s = "TimeSchema" /\ t = TxtTime THEN <<[schema |-> s, answer |-> "00:48"]>>
    ELSE <<>>

\* str(e) of the ValidationError raised for text t under schema s
ValidationErrorText(s, t) == <<"validation error for ", s>> \o t

\* the corrective instruction built from the validation error
Correction(e) ==
    <<"Your previous response had a validation error: ">> \o e
        \o <<". ", "Please correct your response to match the required format.">>

Usage(p, c) == [prompt_tokens |-> p, completion_tokens |-> c, total_tokens |-> p + c]

\* Usage.model_validate(vars(response.usage)): the three counters, verbatim
UsageValidate(u) ==
    [prompt_tokens |-> u.prompt_tokens,
     completion_tokens |-> u.completion_tokens,
     total_tokens |-> u.total_tokens]

StrContent(t) == [isStr |-> TRUE, text |-> t, parts |-> <<>>]
ListContent(ps) == [isStr |-> FALSE, text |-> <<>>, parts |-> ps]

RemoteResponse(id, usage, content, reasoning) ==
    [id |-> id, model |-> "qwen3-vl", usage |-> usage,
     choice |-> [role |-> "assistant", content |-> content,
                 reasoning_content |-> reasoning]]

\* what client.chat.completions.create can return: a chat completion, whose
\* first choice is an assistant message with plain-text or part-list content
Replies ==
    { RemoteResponse("cmpl-a", Usage(10, 2), StrContent(TxtNum), <<"none">>),
      RemoteResponse("cmpl-b", Usage(20, 3), StrContent(TxtTime), <<"thinking">>),
      RemoteResponse("cmpl-c", Usage(30, 5), StrContent(TxtBadTime), <<"none">>),
      RemoteResponse("cmpl-d", Usage(40, 7), StrContent(TxtParis), <<"none">>),
      RemoteResponse("cmpl-e", Usage(50, 11), ListContent(<<TextPart(TxtNum)>>), <<"none">>) }

UserMsg(t) == Message("user", <<TextPart(t)>>)

Conversations ==
    { <<UserMsg(<<"What is the capital of France?">>)>>,
      <<Message("system", <<TextPart(<<"You answer briefly.">>)>>),
        UserMsg(<<"How many tries does it take?">>)>> }

\* the values a retry limit is given (retries is an unconstrained int)
RetryLimits == (-1) .. MaxRetries

\* retries: int | None = None
RetryOverrides == {<<>>} \cup {<<n>> : n \in RetryLimits}

\* ----------------------------------------------------- invoke: operations

\* list(messages): a new list object holding the same messages
\* (variant: no copy, the caller's own list object)
ListAlias(h, r) == [heap |-> h, ref |-> r]
ListCopy(h, r) == [heap |-> [h EXCEPT !["local"] = h[r]], ref |-> "local"]

\* retries if retries is not None else self.retries
\* (variant: "retries or self.retries", which drops an argument of 0)
EffectiveRetriesFalsy(override, default) ==
    IF override # <<>> /\ override[1] # 0 THEN override[1] ELSE default
EffectiveRetries(override, default) ==
    IF override # <<>> THEN override[1] ELSE default

\* the request of one attempt: the current conversation, and the schema when
\* one is asked for
Params(msgs, s) ==
    [model |-> "qwen3-vl", messages |-> msgs,
     response_format |-> IF s # "None" THEN <<[type |-> "json_object", schema |-> s]>> ELSE <<>>]

\* choice.content, a plain string wrapped into a single text part
Normalize(content) ==
    IF content.isStr THEN <<TextPart(content.text)>> ELSE content.parts

\* the sum of two usage records
SumUsage(us) ==
    [prompt_tokens |-> us[1].prompt_tokens + us[2].prompt_tokens,
     completion_tokens |-> us[1].completion_tokens + us[2].completion_tokens,
     total_tokens |-> us[1].total_tokens + us[2].total_tokens]

\* Model._build_response
\* (variants: usage added to the previous attempt's; the role fixed to user)
BuildResponseSummed(response, choice, content, parsed_output) ==
    [id |-> response.id,
     message |-> Message(MessageRole(choice.role), content),
     reasoning_content |-> choice.reasoning_content,
     model |-> response.model,
     usage |-> IF responses = <<>> THEN UsageValidate(response.usage)
               ELSE SumUsage(<<responses[Len(responses)].usage, response.usage>>),
     structured_output |-> parsed_output]
BuildResponseAsUser(response, choice, content, parsed_output) ==
    [id |-> response.id,
     message |-> Message("user", content),
     reasoning_content |-> choice.reasoning_content,
     model |-> response.model,
     usage |-> UsageValidate(response.usage),
     structured_output |-> parsed_output]
BuildResponse(response, choice, content, parsed_output) ==
    [id |-> response.id,
     message |-> Message(MessageRole(choice.role), content),
     reasoning_content |-> choice.reasoning_content,
     model |-> response.model,
     usage |-> UsageValidate(response.usage),
     structured_output |-> parsed_output]

\* attempt < retries - 1: another attempt remains after a validation failure
\* (variant: attempt < retries)
AttemptsRemainOneMore(a, n) == a < n
AttemptsRemain(a, n) == a < n - 1

\* the two messages appended after a failed attempt
\* (variant: the corrective message alone)
RepairOnlyCorrection(content, e) ==
    <<Message("user", <<TextPart(Correction(e))>>)>>
Repair(content, e) ==
    <<Message("assistant", content), Message("user", <<TextPart(Correction(e))>>)>>

Exception(kind, detail) == [kind |-> kind, detail |-> detail]

NoError == Exception("none", <<>>)

\* where invoke stands after the remote call raised: the call is in no try
\* block, so the exception leaves invoke
\* (variant: the exception is swallowed and the loop goes on)
RemoteErrorSwallowed == "loop"
RemoteErrorOutcome == "raised"

\* ------------------------------------------------------- invoke: actions

\* a caller calls invoke(messages, structured_output, retries): lines 79-80
Invoke(override, s) ==
    /\ pc = "idle"
    /\ invocations < MaxInvokes
    /\ LET c == ListCopy(heap, "caller") IN
         /\ heap' = c.heap
         /\ cur' = c.ref
    /\ retriesArg' = override
    /\ retries' = EffectiveRetries(override, selfRetries)
    /\ schema' = s
    /\ attempt' = 0
    /\ sent' = <<>>
    /\ responses' = <<>>
    /\ result' = <<>>
    /\ error' = NoError
    /\ invocations' = invocations + 1
    /\ pc' = "loop"
    /\ UNCHANGED <<selfRetries, orig, everCorrected>>
    /\ UNCHANGED <<renderVars, contextVars>>

\* range(retries) is exhausted: line 124
LoopExhausted ==
    /\ pc = "loop"
    /\ ~(attempt < retries)
    /\ error' = Exception("RuntimeError", <<"Retry loop completed without returning a response">>)
    /\ pc' = "raised"
    /\ UNCHANGED <<selfRetries, orig, heap, schema, retriesArg, retries, attempt, cur, sent,
                   responses, result, invocations, everCorrected>>
    /\ UNCHANGED <<renderVars, contextVars>>

\* an attempt whose remote call raises: line 94, caught nowhere
AttemptRemoteError ==
    /\ pc = "loop"
    /\ attempt < retries
    /\ sent' = Append(sent, Params(heap[cur], schema))
    /\ error' = Exception("RemoteError", <<>>)
    /\ pc' = RemoteErrorOutcome
    /\ UNCHANGED <<selfRetries, orig, heap, schema, retriesArg, retries, attempt, cur,
                   responses, result, invocations, everCorrected>>
    /\ UNCHANGED <<renderVars, contextVars>>

\* an attempt without a schema: lines 83-101
AttemptNoSchema(response) ==
    /\ pc = "loop"
    /\ attempt < retries
    /\ schema = "None"
    /\ sent' = Append(sent, Params(heap[cur], schema))
    /\ responses' = Append(responses, response)
    /\ result' = <<BuildResponse(response, response.choice,
                                 Normalize(response.choice.content), <<>>)>>
    /\ pc' = "returned"
    /\ UNCHANGED <<selfRetries, orig, heap, schema, retriesArg, retries, attempt, cur,
                   error, invocations, everCorrected>>
    /\ UNCHANGED <<renderVars, contextVars>>

\* an attempt whose reply parses into the schema: lines 83-105
AttemptValid(response) ==
    /\ pc = "loop"
    /\ attempt < retries
    /\ schema # "None"
    /\ LET content == Normalize(response.choice.content)
           parsed == ModelValidateJson(schema, content[1].text)
       IN /\ parsed # <<>>
          /\ result' = <<BuildResponse(response, response.choice, content, parsed)>>
    /\ sent' = Append(sent, Params(heap[cur], schema))
    /\ responses' = Append(responses, response)
    /\ pc' = "returned"
    /\ UNCHANGED <<selfRetries, orig, heap, schema, retriesArg, retries, attempt, cur,
                   error, invocations, everCorrected>>
    /\ UNCHANGED <<renderVars, contextVars>>

\* an attempt whose reply fails validation while attempts remain: lines 106-121
AttemptInvalidRetry(response) ==
    /\ pc = "loop"
    /\ attempt < retries
    /\ schema # "None"
    /\ LET content == Normalize(response.choice.content)
           parsed == ModelValidateJson(schema, content[1].text)
       IN /\ parsed = <<>>
          /\ AttemptsRemain(attempt, retries)
          /\ heap' = [heap EXCEPT ![cur] =
                          @ \o Repair(content, ValidationErrorText(schema, content[1].text))]
    /\ sent' = Append(sent, Params(heap[cur], schema))
    /\ responses' = Append(responses, response)
    /\ attempt' = attempt + 1
    /\ UNCHANGED <<selfRetries, orig, pc, schema, retriesArg, retries, cur,
                   result, error, invocations, everCorrected>>
    /\ UNCHANGED <<renderVars, contextVars>>

\* the last attempt's reply fails validation: the error is re-raised, line 122
AttemptInvalidRaise(response) ==
    /\ pc = "loop"
    /\ attempt < retries
    /\ schema # "None"
    /\ LET content == Normalize(response.choice.content)
           parsed == ModelValidateJson(schema, content[1].text)
       IN /\ parsed = <<>>
          /\ ~AttemptsRemain(attempt, retries)
          /\ error' = Exception("ValidationError",
                                ValidationErrorText(schema, content[1].text))
    /\ sent' = Append(sent, Params(heap[cur], schema))
    /\ responses' = Append(responses, response)
    /\ pc' = "raised"
    /\ UNCHANGED <<selfRetries, orig, heap, schema, retriesArg, retries, attempt, cur,
                   result, invocations, everCorrected>>
    /\ UNCHANGED <<renderVars, contextVars>>

\* invoke has returned or raised; its local list is dropped and the caller goes on
Finish ==
    /\ pc \in {"returned", "raised"}
    /\ pc' = "idle"
    /\ everCorrected' = (everCorrected \/ Len(heap[cur]) > Len(orig))
    /\ heap' = [heap EXCEPT !["local"] = <<>>]
    /\ schema' = "None"
    /\ retriesArg' = <<>>
    /\ retries' = 0
    /\ attempt' = 0
    /\ cur' = "caller"
    /\ sent' = <<>>
    /\ responses' = <<>>
    /\ result' = <<>>
    /\ error' = NoError
    /\ UNCHANGED <<selfRetries, orig, invocations>>
    /\ UNCHANGED <<renderVars, contextVars>>

InvokeInit ==
    /\ selfRetries \in RetryLimits
    /\ orig \in Conversations
    /\ heap = [r \in {"caller", "local"} |-> IF r = "caller" THEN orig ELSE <<>>]
    /\ pc = "idle"
    /\ schema = "None"
    /\ retriesArg = <<>>
    /\ retries = 0
    /\ attempt = 0
    /\ cur = "caller"
    /\ sent = <<>>
    /\ responses = <<>>
    /\ result = <<>>
    /\ error = NoError
    /\ invocations = 0
    /\ everCorrected = FALSE

InvokeIdle ==
    /\ selfRetries = DefaultRetries
    /\ orig = <<>>
    /\ heap = [r \in {"caller", "local"} |-> <<>>]
    /\ pc = "off"
    /\ schema = "None"
    /\ retriesArg = <<>>
    /\ retries = 0
    /\ attempt = 0
    /\ cur = "caller"
    /\ sent = <<>>
    /\ responses = <<>>
    /\ result = <<>>
    /\ error = NoError
    /\ invocations = 0
    /\ everCorrected = FALSE

Next ==
    \/ \E o \in RetryOverrides, s \in Schemas \cup {"None"} : Invoke(o, s)
    \/ LoopExhausted
    \/ AttemptRemoteError
    \/ \E r \in Replies : AttemptNoSchema(r)
    \/ \E r \in Replies : AttemptValid(r)
    \/ \E r \in Replies : AttemptInvalidRetry(r)
    \/ \E r \in Replies : AttemptInvalidRaise(r)
    \/ Finish

\* ============================================================== rendering
\* Instruction.build_message.  A text is a sequence of tokens: "a" an ordinary
\* character, " " a blank, "n" a newline, "M" the delimiter ###IMAGE###, and,
\* in a template, "T" the placeholder {transcript} and "I" the placeholder
\* {image}.

\* longest template tried
MaxTmplLen == 4


TmplTokens == {"a", " ", "n", "M", "T", "I"}

SeqsUpTo(S, n) == UNION {[1 .. k -> S] : k \in 0 .. n}

Templates == SeqsUpTo(TmplTokens, MaxTmplLen)

Transcripts == {<<"a">>, <<"n", "a">>, <<"a", "n">>}

\* image_url: str | None
ImageUrls == {<<>>, <<"">>, <<"https://signed/q1.png">>}

SystemPrompt == <<"a">>

\* user_prompt.format(transcript=transcript, image="")
RECURSIVE Format(_, _, _)
Format(t, tr, img) ==
    IF t = <<>> THEN <<>>
    ELSE (IF Head(t) = "T" THEN tr ELSE IF Head(t) = "I" THEN img ELSE <<Head(t)>>)
             \o Format(Tail(t), tr, img)

\* the number of leading newlines of s
RECURSIVE LeadingNewlines(_)
LeadingNewlines(s) ==
    IF s # <<>> /\ Head(s) = "n" THEN 1 + LeadingNewlines(Tail(s)) ELSE 0

Drop(s, k) == SubSeq(s, k + 1, Len(s))

\* re.sub(r'\n*###IMAGE###\n.*?\n*', '', s): at each position, leftmost first,
\* a match is a run of newlines, the delimiter, one newline, nothing (the lazy
\* .*? stays empty, the \n* after it always matching), and the newlines that
\* follow; a position where no match starts keeps its character.
RECURSIVE SubImage(_)
SubImage(s) ==
    IF s = <<>> THEN <<>>
    ELSE LET k == LeadingNewlines(s) IN
         IF Len(s) >= k + 2 /\ s[k + 1] = "M" /\ s[k + 2] = "n"
         THEN LET rest == Drop(s, k + 2) IN
              SubImage(Drop(rest, LeadingNewlines(rest)))
         ELSE <<Head(s)>> \o SubImage(Tail(s))

\* str.rstrip(): trailing whitespace removed
RECURSIVE RStrip(_)
RStrip(s) ==
    IF s # <<>> /\ s[Len(s)] \in {"n", " "} THEN RStrip(SubSeq(s, 1, Len(s) - 1)) ELSE s

ImagePart(u) == [type |-> "image_url", image_url |-> [url |-> u]]

\* if image_url: None and the empty string are both falsy
Truthy(u) == u # <<>> /\ u[1] # ""

\* the body of build_message
BuildMessageOf(up, tr, img) ==
    LET formatted == RStrip(SubImage(Format(up, tr, <<>>))) IN
    <<Message("system", <<TextPart(SystemPrompt)>>),
      Message("user", <<TextPart(formatted)>>)>>
        \o IF Truthy(img) THEN <<Message("user", <<ImagePart(img[1])>>)>> ELSE <<>>

BuildMessage ==
    /\ rpc = "ready"
    /\ messages' = BuildMessageOf(userPrompt, transcript, imageUrl)
    /\ rpc' = "built"
    /\ UNCHANGED <<userPrompt, transcript, imageUrl>>
    /\ UNCHANGED <<invokeVars, contextVars>>

RenderInit ==
    /\ userPrompt \in Templates
    /\ transcript \in Transcripts
    /\ imageUrl \in ImageUrls
    /\ rpc = "ready"
    /\ messages = <<>>

RenderIdle ==
    /\ userPrompt = <<>>
    /\ transcript = <<>>
    /\ imageUrl = <<>>
    /\ rpc = "off"
    /\ messages = <<>>

NextRender == BuildMessage

\* ======================================================= context assembly
\* Bucket.list_files, Bucket.list_public_urls and Contextual.__init__.  A file
\* name and a question identifier are sequences of fragments, "." being the
\* dot, so that the stem of a name is computed and not given.

\* most entries in a blob listing
MaxFiles == 2
\* most question rows in the store
MaxQuestions == 2


FileNames ==
    { <<"q1", ".", "png">>, <<"q2", ".", "png">>, <<"q1", ".", "jpg">>,
      <<"q1", ".", "tar", ".", "gz">>, <<"q3">>, <<".", "png">> }

QuestionIds == { <<"q1">>, <<"q2">>, <<"q1", ".", "tar">> }

File(name) == [name |-> name]

Listings ==
    {[isList |-> FALSE, items |-> <<>>]}
        \cup {[isList |-> TRUE, items |-> fs] : fs \in SeqsUpTo({File(n) : n \in FileNames}, MaxFiles)}

\* the rows: id is the primary key, the position in the table
QuestionRows ==
    UNION {{[i \in 1 .. k |-> [id |-> i, question_id |-> q[i], transcript |-> <<"T", i>>]]
               : q \in [1 .. k -> QuestionIds]} : k \in 0 .. MaxQuestions}

BlobPath == <<"pilot_images">>

\* the index of the last "." of a name, 0 when it has none
RECURSIVE RFindDot(_)
RFindDot(name) ==
    IF name = <<>> THEN 0
    ELSE IF name[Len(name)] = "." THEN Len(name)
    ELSE RFindDot(SubSeq(name, 1, Len(name) - 1))

\* Path(name).stem: the name without its last suffix; a leading or a trailing
\* dot starts no suffix
Stem(name) ==
    LET i == RFindDot(name) IN
    IF 1 < i /\ i < Len(name) THEN SubSeq(name, 1, i - 1) ELSE name

\* the signed URL the store issues for a path
SignedUrl(filename) == <<"https://signed/">> \o filename \o <<"?token">>

\* create_signed_urls(filenames, expires_in): one entry per path, in order
CreateSignedUrls(filenames) ==
    [i \in 1 .. Len(filenames) |-> [signedURL |-> SignedUrl(filenames[i])]]

\* a dict built from (key, value) pairs in order: a later pair replaces an
\* earlier one with the same key
DictOf(pairs) ==
    [k \in {pairs[i][1] : i \in 1 .. Len(pairs)} |->
        LET last == CHOOSE i \in 1 .. Len(pairs) :
                        /\ pairs[i][1] = k
                        /\ \A j \in 1 .. Len(pairs) : pairs[j][1] = k => j <= i
        IN pairs[last][2]]

\* dict.get(key): <<the value>>, or <<>> for None
Get(d, k) == IF k \in DOMAIN d THEN <<d[k]>> ELSE <<>>

\* Bucket.list_files: the listing when it is a list, else the empty list
ListFiles(response) == IF response.isList THEN response.items ELSE <<>>

\* if not files
\* (variant: the test left out)
NoFilesNever(files) == FALSE
NoFiles(files) == files = <<>>

\* the key of a file in the mapping of list_public_urls
\* (variant: the whole file name)
UrlKeyName(file) == file.name
UrlKey(file) == Stem(file.name)

\* Bucket.list_public_urls(path): the mapping or the error, and the
\* create_signed_urls requests made
ListPublicUrlsOf(response, path) ==
    LET files == ListFiles(response) IN
    IF NoFiles(files)
    THEN [error |-> "ValueError", urls |-> <<>>, requests |-> 0]
    ELSE LET filenames == [i \in 1 .. Len(files) |-> path \o <<"/">> \o files[i].name]
             response2 == CreateSignedUrls(filenames)
         IN [error |-> "none",
             urls |-> <<DictOf([i \in 1 .. Len(files) |->
                                  <<UrlKey(files[i]), response2[i].signedURL>>])>>,
             requests |-> 1]

\* signed_urls.get(question.question_id)
ImageUrlFor(signed_urls, question) == Get(signed_urls, question.question_id)

\* the dict comprehension of Contextual.__init__
ContextsOf(qs, signed_urls) ==
    DictOf([i \in 1 .. Len(qs) |->
              <<qs[i].question_id,
                [id |-> qs[i].id,
                 question_id |-> qs[i].question_id,
                 prompt |-> [transcript |-> qs[i].transcript,
                             image_url |-> ImageUrlFor(signed_urls, qs[i])]]>>])

\* a direct call of bucket.list_public_urls(path)
ListPublicUrls ==
    /\ cpc = "ready"
    /\ LET r == ListPublicUrlsOf(listing, BlobPath) IN
         /\ urls' = r.urls
         /\ cerror' = r.error
         /\ signedRequests' = signedRequests + r.requests
    /\ cpc' = "listed"
    /\ UNCHANGED <<listing, questions, contexts>>
    /\ UNCHANGED <<invokeVars, renderVars>>

\* Contextual(bucket_name, path): the whole constructor
ContextualInit ==
    /\ cpc = "ready"
    /\ LET r == ListPublicUrlsOf(listing, BlobPath) IN
         /\ urls' = r.urls
         /\ cerror' = r.error
         /\ signedRequests' = signedRequests + r.requests
         /\ contexts' = IF r.error = "none" THEN <<ContextsOf(questions, r.urls[1])>>
                        ELSE <<>>
    /\ cpc' = "assembled"
    /\ UNCHANGED <<listing, questions>>
    /\ UNCHANGED <<invokeVars, renderVars>>

ContextInit ==
    /\ listing \in Listings
    /\ questions \in QuestionRows
    /\ cpc = "ready"
    /\ urls = <<>>
    /\ signedRequests = 0
    /\ contexts = <<>>
    /\ cerror = "none"

ContextIdle ==
    /\ listing = [isList |-> FALSE, items |-> <<>>]
    /\ questions = <<>>
    /\ cpc = "off"
    /\ urls = <<>>
    /\ signedRequests = 0
    /\ contexts = <<>>
    /\ cerror = "none"

NextContext == ListPublicUrls \/ ContextualInit

\* ======================================================== specifications

\* the inference client
Init == InvokeInit /\ RenderIdle /\ ContextIdle
Spec == Init /\ [][Next]_vars

\* the prompt library
InitRender == InvokeIdle /\ RenderInit /\ ContextIdle
SpecRender == InitRender /\ [][NextRender]_vars

\* the context assembler
InitContext == InvokeIdle /\ RenderIdle /\ ContextInit
SpecContext == InitContext /\ [][NextContext]_vars

\* ================================================================= claims
\* What the claims speak of, stated from the histories sent and responses.

\* the text of the first content part of a reply
ReplyText(r) ==
    IF r.choice.content.isStr THEN r.choice.content.text
    ELSE r.choice.content.parts[1].text

\* the content parts of a reply, as they are replayed to the model
ReplyParts(r) ==
    IF r.choice.content.isStr THEN <<[type |-> "text", text |-> r.choice.content.text]>>
    ELSE r.choice.content.parts

Fails(r) == ModelValidateJson(schema, ReplyText(r)) = <<>>

InCall == pc \in {"loop", "returned", "raised"}

RemoteFailed == error.kind = "RemoteError"

\* the conversation the k-th attempt is expected to send: the original, then
\* one (failed assistant reply, corrective user message) pair per earlier attempt
RECURSIVE ExpectedConversation(_)
ExpectedConversation(k) ==
    IF k <= 1 THEN orig
    ELSE ExpectedConversation(k - 1) \o
         << [role |-> "assistant", content |-> ReplyParts(responses[k - 1])],
            [role |-> "user",
             content |-> <<[type |-> "text",
                            text |-> Correction(ValidationErrorText(
                                        schema, ReplyText(responses[k - 1])))]>>] >>

\* C1: with a schema and a retry limit n >= 1, while every reply fails
\* validation invoke never returns and never makes more than n remote calls;
\* it goes on until the n-th attempt, and then raises the validation error of
\* the n-th reply.
C1_ExactlyNAttemptsThenRaise ==
    (/\ InCall
     /\ schema # "None"
     /\ retries >= 1
     /\ ~RemoteFailed
     /\ \A i \in 1 .. Len(responses) : Fails(responses[i]))
    => /\ result = <<>>
       /\ pc # "returned"
       /\ Len(sent) = Len(responses)
       /\ Len(sent) <= retries
       /\ pc = "loop" => Len(sent) < retries /\ attempt = Len(sent)
       /\ pc = "raised" =>
            /\ Len(sent) = retries
            /\ error = [kind |-> "ValidationError",
                        detail |-> ValidationErrorText(schema, ReplyText(responses[retries]))]

C1_Witness ==
    /\ pc = "raised"
    /\ error.kind = "ValidationError"
    /\ retries = 3
    /\ Len(sent) = 3

\* C2: with a schema, when the replies of attempts 1..k-1 fail validation and
\* the reply of attempt k passes, invoke returns a result carrying the parsed
\* reply of attempt k, and the conversation sent on every attempt k is the
\* original followed by exactly 2*(k-1) messages, the (failed assistant reply,
\* corrective user message) pairs of the attempts before it, in order.
C2_RepairedConversation ==
    (InCall /\ schema # "None") =>
        /\ \A k \in 1 .. Len(sent) :
              /\ sent[k].messages = ExpectedConversation(k)
              /\ Len(sent[k].messages) = Len(orig) + 2 * (k - 1)
        /\ \A k \in 1 .. Len(responses) :
              ~Fails(responses[k]) =>
                  /\ k = Len(responses)
                  /\ pc = "returned"
                  /\ Len(result) = 1
                  /\ result[1].structured_output =
                         ModelValidateJson(schema, ReplyText(responses[k]))
                  /\ result[1].message.content = ReplyParts(responses[k])

C2_Witness ==
    /\ pc = "returned"
    /\ schema # "None"
    /\ retries = 3
    /\ Len(sent) = 2
    /\ Len(sent[2].messages) = Len(orig) + 2
    /\ result # <<>>

\* C3: once the remote call of an attempt has raised, invoke has raised that
\* error: the failed call is the last one made, the conversation holds no
\* message beyond those that call sent, and there is no result.
C3_RemoteErrorPropagates ==
    RemoteFailed =>
        /\ pc = "raised"
        /\ result = <<>>
        /\ Len(sent) = Len(responses) + 1
        /\ heap[cur] = sent[Len(sent)].messages
        /\ Len(heap[cur]) = Len(orig) + 2 * Len(responses)

C3_Witness ==
    /\ RemoteFailed
    /\ schema # "None"
    /\ Len(sent) = 2

\* C4 as stated: a call without a schema, whatever the retry limit, ends having
\* made exactly one remote call and returns a result (the remote call itself
\* not failing).
C4_Original ==
    (schema = "None" /\ pc \in {"returned", "raised"} /\ ~RemoteFailed) =>
        /\ Len(sent) = 1
        /\ pc = "returned"

\* C4 as amended: in a call without a schema and with a retry limit >= 1, at
\* most one remote call is made, and once its reply is there invoke has
\* returned after exactly that one call: the result's message has role
\* assistant, its content is the reply's content, a plain-text reply being a
\* single text part, there is no parsed payload, and nothing was appended to
\* the conversation.
C4_NoSchemaSingleCall ==
    (InCall /\ schema = "None" /\ retries >= 1) =>
        /\ Len(sent) <= 1
        /\ pc = "raised" => RemoteFailed
        /\ pc = "loop" => sent = <<>>
        /\ Len(responses) >= 1 =>
              /\ pc = "returned"
              /\ Len(sent) = 1
              /\ Len(responses) = 1
              /\ Len(result) = 1
              /\ result[1].message.role = "assistant"
              /\ result[1].message.content = ReplyParts(responses[1])
              /\ responses[1].choice.content.isStr =>
                    result[1].message.content =
                        <<[type |-> "text", text |-> responses[1].choice.content.text]>>
              /\ result[1].structured_output = <<>>
              /\ heap[cur] = orig
              /\ sent[1].response_format = <<>>

C4_Witness ==
    /\ pc = "returned"
    /\ schema = "None"
    /\ retries = 3
    /\ result # <<>>
    /\ result[1].message.content = <<[type |-> "text", text |-> <<"Paris">>]>>

\* the retry limit the caller asked for: the argument, the client's when None
RequestedLimit == IF retriesArg = <<>> THEN selfRetries ELSE retriesArg[1]

\* C8: a call whose retry limit (the retries argument, or the client default
\* when the argument is None) is <= 0 makes no remote call and can only end by
\* raising the RuntimeError, with or without a schema; with a retry limit >= 1
\* the RuntimeError is never raised.

C8_NonPositiveLimit ==
    InCall =>
        /\ RequestedLimit <= 0 =>
              /\ sent = <<>>
              /\ responses = <<>>
              /\ result = <<>>
              /\ pc \in {"loop", "raised"}
              /\ pc = "raised" => error.kind = "RuntimeError"
              /\ pc = "loop" => ENABLED LoopExhausted
        /\ RequestedLimit >= 1 => error.kind # "RuntimeError"

C8_Witness ==
    /\ pc = "raised"
    /\ error.kind = "RuntimeError"
    /\ retriesArg = <<0>>
    /\ selfRetries = 2
    /\ schema # "None"

\* C9: the identifier, the model identifier and the usage counters of the
\* result are those of the response of the last attempt, whatever the earlier
\* attempts used.
C9_FinalAttemptUsage ==
    pc = "returned" =>
        /\ Len(result) = 1
        /\ result[1].id = responses[Len(responses)].id
        /\ result[1].model = responses[Len(responses)].model
        /\ result[1].usage = responses[Len(responses)].usage

C9_Witness ==
    /\ pc = "returned"
    /\ Len(responses) = 3
    /\ result[1].usage.total_tokens = 12

\* C10: the list the caller passed in is never changed, and the first request
\* of every call, a later call on the same client too, carries the caller's
\* conversation without any corrective message of an earlier call.
C10_CallerConversationUnchanged ==
    /\ heap["caller"] = orig
    /\ Len(sent) >= 1 => sent[1].messages = orig

C10_Witness ==
    /\ everCorrected
    /\ invocations = 2
    /\ Len(sent) = 2
    /\ Len(heap[cur]) > Len(orig)
    /\ heap["caller"] = orig

\* the text of the user message build_message rendered
RenderedUserText == messages[2].content[1].text

\* C5: whatever the template and wherever the image marker stands in it,
\* build_message called with no image renders a user message whose text does
\* not hold the delimiter ###IMAGE###.
C5_NoMarkerLeft ==
    (rpc = "built" /\ imageUrl = <<>>) =>
        \A i \in 1 .. Len(RenderedUserText) : RenderedUserText[i] # "M"

\* the files of a listing whose stem is the identifier q
FilesWithStem(q) ==
    {j \in 1 .. Len(listing.items) : Stem(listing.items[j].name) = q}

\* C6: list_public_urls on a listing that is not a list, or that has no file,
\* raises the ValueError without asking for any signed URL and returns no
\* mapping; a mapping it returns has at least one entry.
C6_EmptyListingRaises ==
    cpc # "ready" /\ cpc # "off" =>
        /\ (~listing.isList \/ listing.items = <<>>) =>
              /\ cerror = "ValueError"
              /\ signedRequests = 0
              /\ urls = <<>>
        /\ cerror = "none" => Len(urls) = 1
        /\ Len(urls) = 1 => DOMAIN urls[1] # {}

C6_Witness ==
    /\ cpc = "listed"
    /\ listing.isList
    /\ listing.items = <<>>
    /\ cerror = "ValueError"
    /\ signedRequests = 0

\* C7: in the assembled mapping every question is present under its
\* question_id; its image_url is the signed URL of a listed file whose stem is
\* that question_id, and None when no listed file has that stem.
C7_ImageMatchedByStem ==
    (cpc = "assembled" /\ cerror = "none") =>
        /\ Len(contexts) = 1
        /\ \A i \in 1 .. Len(questions) :
              LET q == questions[i].question_id IN
              /\ q \in DOMAIN contexts[1]
              /\ contexts[1][q].question_id = q
              /\ LET last == CHOOSE k \in 1 .. Len(questions) :
                                /\ questions[k].question_id = q
                                /\ \A m \in 1 .. Len(questions) :
                                      questions[m].question_id = q => m <= k
                 IN /\ contexts[1][q].id = questions[last].id
                    /\ contexts[1][q].prompt.transcript = questions[last].transcript
              /\ FilesWithStem(q) = {} => contexts[1][q].prompt.image_url = <<>>
              /\ FilesWithStem(q) # {} =>
                    \E j \in FilesWithStem(q) :
                        contexts[1][q].prompt.image_url =
                            <<SignedUrl(BlobPath \o <<"/">> \o listing.items[j].name)>>

C7_Witness ==
    /\ cpc = "assembled"
    /\ cerror = "none"
    /\ Len(questions) = 2
    /\ questions[1].question_id = <<"q1">>
    /\ questions[2].question_id = <<"q2">>
    /\ listing.items = <<[name |-> <<"q1", ".", "png">>]>>
    /\ contexts[1][<<"q1">>].prompt.image_url # <<>>
    /\ contexts[1][<<"q2">>].prompt.image_url = <<>>
====
